---- MODULE Spec2Model ----
(***************************************************************************)
(* Model of the sync-enabled quote generator, dom-manipulation/script.js:  *)
(* the quotes array and its localStorage copy, the conflicts array, the    *)
(* sync cycle (fetch, detect, merge, notify, post local quotes) with its   *)
(* suspension points, addQuote, JSON import and applyConflictChoice.       *)
(*                                                                         *)
(* The earlier variant of the sync, unnamed/part_000, is modelled in a     *)
(* section of its own (SpecEarlier).                                       *)
(*                                                                         *)
(* Strings are sequences of one-character strings, so that trim() is a     *)
(* computation.  An id is a pair <<prefix, n>>: uidLocal() yields          *)
(* <<"local-", n>> and String(p.id) yields <<"", n>>.                      *)
(***************************************************************************)
EXTENDS Integers, Sequences, FiniteSets, TLC

VARIABLES
    quotes,       \* script.js:29  the in-memory array of quote objects
    persisted,    \* localStorage[LS_KEY], as last written by saveLocalQuotes
    conflicts,    \* script.js:30  array of { id, local, server }
    now,          \* the clock read by nowIso()
    pc,           \* per sync cycle: "idle", "fetching" (awaiting the GET), "posting" (awaiting a POST)
    localOnly,    \* per sync cycle: the part of the localOnly array not yet posted; its head is in flight
    called,       \* the handler step that ran last, and whether it threw
    emitted,      \* the notifications shown by the handler step that ran last
    loaded        \* history: the array loadLocalQuotes produced, which the first sync cycle started from

vars == <<quotes, persisted, conflicts, now, pc, localOnly, called, emitted, loaded>>

----------------------------------------------------------------------------
(* Bounds *)

MaxCycles == 2      \* calls of syncWithServer that may be in flight together
MaxQuotes == 2      \* length of the quotes array
MaxConflicts == 2   \* length of the conflicts array
MaxSnap == 1        \* posts in one server response
MaxServerId == 1    \* ids the server hands out
MaxImport == 1      \* items in an imported file
MaxLoaded == 2      \* length of an array found in localStorage (SpecLedger)
MaxBody == 2        \* posts in one server response (SpecLedger)
MaxBodyId == 2      \* ids the server hands out (SpecLedger)
MaxIntake == 3      \* length of the quotes array (SpecIntake)
MaxFile == 2        \* items in an imported file (SpecIntake)
MaxLiveCycles == 1  \* calls of syncWithServer in flight together (SpecReturns, SpecRetry)
MaxLiveQuotes == 2  \* length of the quotes array (SpecReturns, SpecRetry)
MaxEarlierQuotes == 3   \* length of the quotes array (SpecEarlier)
MaxEarlierStored == 2   \* length of an array found in localStorage (SpecEarlier)
MaxEarlierData == 2     \* posts in one server response (SpecEarlier)

Procs == 1..MaxCycles

----------------------------------------------------------------------------
(* Strings *)

IsSpace(ch) == ch = " "

RECURSIVE TrimStart(_)
TrimStart(s) ==
    IF s # <<>> /\ IsSpace(Head(s)) THEN TrimStart(Tail(s)) ELSE s

RECURSIVE TrimEnd(_)
TrimEnd(s) ==
    IF s # <<>> /\ IsSpace(s[Len(s)]) THEN TrimEnd(SubSeq(s, 1, Len(s) - 1)) ELSE s

\* String.prototype.trim
Trim(s) == TrimEnd(TrimStart(s))

\* a value that is not a string (undefined, a number, ...)
NotAString == <<"\\undefined">>

IsString(v) == v # NotAString

\* String(text || '')
StringOrEmpty(v) == IF IsString(v) THEN v ELSE <<>>

----------------------------------------------------------------------------
(* Ids and quote objects *)

ServerIdOf(n) == <<"", n>>
LocalIdOf(n) == <<"local-", n>>

\* q.id && q.id.startsWith('local-')
StartsWithLocal(id) == id[1] = "local-"

Quote(id, text, category, updatedAt, source) ==
    [id |-> id, text |-> text, category |-> category, updatedAt |-> updatedAt, source |-> source]

Ids(qs) == {qs[i].id : i \in 1..Len(qs)}

\* quotes.findIndex(q => q.id === id), 1-based; 0 when there is none
FindIndex(qs, id) ==
    IF \E i \in 1..Len(qs) : qs[i].id = id
    THEN CHOOSE i \in 1..Len(qs) : qs[i].id = id /\ \A j \in 1..(i - 1) : qs[j].id # id
    ELSE 0

\* ids of local quotes still referenced anywhere in the program
LocalNumbersInUse ==
    {id[2] : id \in {i \in Ids(quotes) \cup UNION {Ids(localOnly[p]) : p \in Procs} : StartsWithLocal(i)}}

\* uidLocal(): 'local-' + Date.now() + '-' + random, taken as an id that no
\* live object carries; used is the set of numbers already taken
FreshNumber(used) == CHOOSE n \in 1..(Cardinality(used) + 1) : n \notin used

uidLocal(used) == LocalIdOf(FreshNumber(used))

----------------------------------------------------------------------------
(* JavaScript Map: keys in order of first insertion, one value per key *)

MapHas(m, k) == \E i \in 1..Len(m) : m[i].key = k

MapGet(m, k) == m[CHOOSE i \in 1..Len(m) : m[i].key = k].val

MapSet(m, k, v) ==
    IF MapHas(m, k)
    THEN [i \in 1..Len(m) |-> IF m[i].key = k THEN [key |-> k, val |-> v] ELSE m[i]]
    ELSE Append(m, [key |-> k, val |-> v])

MapValues(m) == [i \in 1..Len(m) |-> m[i].val]

RECURSIVE MapSetAll(_, _)
MapSetAll(m, qs) ==
    IF qs = <<>> THEN m ELSE MapSetAll(MapSet(m, Head(qs).id, Head(qs)), Tail(qs))

\* new Map(qs.map(q => [q.id, q]))
MapById(qs) == MapSetAll(<<>>, qs)

----------------------------------------------------------------------------
(* Server fetch and post *)

SliceLimit == 20

ServerUserIds == {"1"}

\* a post of the mock server: { id, title, userId }
PostsUpTo(maxId, titles) == [id : 1..maxId, title : titles, userId : ServerUserIds]

RECURSIVE SeqsUpTo(_, _)
SeqsUpTo(S, n) ==
    IF n = 0 THEN {<<>>}
    ELSE SeqsUpTo(S, n - 1) \cup {Append(s, x) : s \in {t \in SeqsUpTo(S, n - 1) : Len(t) = n - 1}, x \in S}

\* the bodies a successful GET may carry
ResponsesUpTo(maxLen, maxId, titles) == SeqsUpTo(PostsUpTo(maxId, titles), maxLen)

\* `User ${p.userId}`
UserCategory(userId) == <<"U", "s", "e", "r", " ", userId>>

\* fetchServerQuotes, after the response has arrived: posts.slice(0, 20).map(...)
fetchServerQuotes(posts, t) ==
    LET first == SubSeq(posts, 1, IF Len(posts) < SliceLimit THEN Len(posts) ELSE SliceLimit)
    IN  [i \in 1..Len(first) |->
            Quote(ServerIdOf(first[i].id), Trim(first[i].title), UserCategory(first[i].userId), t, "server")]

\* mutant of postLocalQuoteToServer: the returned object keeps the id of the
\* local quote instead of taking created.id
postLocalQuoteToServer_KeepsId(localQuote, createdId, t) ==
    Quote(localQuote.id, localQuote.text, localQuote.category, t, "server")

\* postLocalQuoteToServer, after the response has arrived; createdId is created.id
postLocalQuoteToServer(localQuote, createdId, t) ==
    Quote(ServerIdOf(createdId), localQuote.text, localQuote.category, t, "server")

----------------------------------------------------------------------------
(* Merge and conflict logic *)

Differs(l, s) == l.text # s.text \/ l.category # s.category

ConflictEntry(id, l, s) == [id |-> id, local |-> l, server |-> s]

RECURSIVE DetectLoop(_, _, _)
DetectLoop(entries, localById, detected) ==
    IF entries = <<>> THEN detected
    ELSE LET id == Head(entries).key
             s == Head(entries).val
         IN  DetectLoop(Tail(entries), localById,
                 IF MapHas(localById, id) /\ Differs(MapGet(localById, id), s)
                 THEN Append(detected, ConflictEntry(id, MapGet(localById, id), s))
                 ELSE detected)

\* detectConflicts(serverQuotes), reading the array qs
detectConflicts(serverQuotes, qs) ==
    DetectLoop(MapById(serverQuotes), MapById(qs), <<>>)

\* mutant of MergeServerLoop: a differing local record is kept
RECURSIVE MergeServerLoop_LocalWins(_, _, _)
MergeServerLoop_LocalWins(sqs, localById, pushed) ==
    IF sqs = <<>> THEN [map |-> localById, pushed |-> pushed]
    ELSE LET sq == Head(sqs)
             withServer == MapSet(localById, sq.id, [sq EXCEPT !.source = "server"])
         IN  IF MapHas(localById, sq.id)
             THEN IF Differs(MapGet(localById, sq.id), sq)
                  THEN MergeServerLoop_LocalWins(Tail(sqs), localById,
                           Append(pushed, ConflictEntry(sq.id, MapGet(localById, sq.id), sq)))
                  ELSE MergeServerLoop_LocalWins(Tail(sqs), withServer, pushed)
             ELSE MergeServerLoop_LocalWins(Tail(sqs), withServer, pushed)

\* step 1 of mergeServerData: serverQuotes.forEach(sq => ...), on the map and the conflicts pushed so far
RECURSIVE MergeServerLoop(_, _, _)
MergeServerLoop(sqs, localById, pushed) ==
    IF sqs = <<>> THEN [map |-> localById, pushed |-> pushed]
    ELSE LET sq == Head(sqs)
             withServer == MapSet(localById, sq.id, [sq EXCEPT !.source = "server"])
         IN  IF MapHas(localById, sq.id)
             THEN MergeServerLoop(Tail(sqs), withServer,
                      IF Differs(MapGet(localById, sq.id), sq)
                      THEN Append(pushed, ConflictEntry(sq.id, MapGet(localById, sq.id), sq))
                      ELSE pushed)
             ELSE MergeServerLoop(Tail(sqs), withServer, pushed)

\* step 2 of mergeServerData: quotes.forEach(l => ...)
RECURSIVE KeepLocalLoop(_, _, _)
KeepLocalLoop(qs, serverById, localById) ==
    IF qs = <<>> THEN localById
    ELSE KeepLocalLoop(Tail(qs), serverById,
             IF ~MapHas(serverById, Head(qs).id)
             THEN MapSet(localById, Head(qs).id, Head(qs))
             ELSE localById)

\* mutant of mergeServerData: the server quotes are pushed onto the array
\* whether or not their id is there already
mergeServerData_Pushes(serverQuotes, qs) ==
    [quotes |-> qs \o [i \in 1..Len(serverQuotes) |-> [serverQuotes[i] EXCEPT !.source = "server"]],
     pushed |-> MergeServerLoop(serverQuotes, MapById(qs), <<>>).pushed]

\* mergeServerData(serverQuotes) on the array qs: the rebuilt array and the conflicts it pushes
mergeServerData(serverQuotes, qs) ==
    LET step1 == MergeServerLoop(serverQuotes, MapById(qs), <<>>)
        step2 == KeepLocalLoop(qs, MapById(serverQuotes), step1.map)
    IN  [quotes |-> MapValues(step2), pushed |-> step1.pushed]

\* quotes.filter(q => q.id && q.id.startsWith('local-'))
LocalOnlyOf(qs) == SelectSeq(qs, LAMBDA q : StartsWithLocal(q.id))

----------------------------------------------------------------------------
(* Notifications and the record of the last handler step *)

Notif(title, count) == [title |-> title, count |-> count]

\* alert(...)
Alert == Notif("alert", 0)

\* arg: the server quotes of a fetch, the quote and the id of a post
Call(op, index, choice, arg) ==
    [op |-> op, index |-> index, choice |-> choice, arg |-> arg, threw |-> FALSE]

----------------------------------------------------------------------------
(* The sync cycle.  syncWithServer is called by init (script.js:520), by   *)
(* the setInterval callback (script.js:523) and by the click handler of    *)
(* "Sync Now" (script.js:494); the three callers are one action.  The call *)
(* made by init is the one in flight in the initial state.                 *)

Running == {p \in Procs : pc[p] # "idle"}

\* a call of syncWithServer takes the first free slot
FreeSlot == CHOOSE p \in Procs : pc[p] = "idle" /\ \A q \in Procs : pc[q] = "idle" => p <= q

\* syncWithServer up to its first await: fetch(SERVER_ENDPOINT) is sent
syncWithServer ==
    /\ Running # Procs
    /\ pc' = [pc EXCEPT ![FreeSlot] = "fetching"]
    /\ called' = Call("syncWithServer", 0, "", <<>>)
    /\ emitted' = <<>>
    /\ UNCHANGED <<quotes, persisted, conflicts, now, localOnly, loaded>>

\* syncWithServer returns
Return(p, shown) ==
    /\ pc' = [pc EXCEPT ![p] = "idle"]
    /\ localOnly' = [localOnly EXCEPT ![p] = <<>>]
    /\ emitted' = shown

\* the for loop over localOnly reaches its next await, or ends
NextPost(p, rest, shown) ==
    IF rest = <<>>
    THEN Return(p, shown)
    ELSE /\ pc' = [pc EXCEPT ![p] = "posting"]
         /\ localOnly' = [localOnly EXCEPT ![p] = rest]
         /\ emitted' = shown

\* mutant of FetchFail: the failure is reported, but the loop over the local
\* quotes still runs
FetchFail_StillPosts(p) ==
    /\ pc[p] = "fetching"
    /\ called' = Call("fetchFailed", 0, "", <<>>)
    /\ NextPost(p, LocalOnlyOf(quotes), <<Notif("Sync Error", 0)>>)
    /\ UNCHANGED <<quotes, persisted, conflicts, now, loaded>>

\* the GET fails (network error, !res.ok, res.json() rejects): the outer catch
FetchFail(p) ==
    /\ pc[p] = "fetching"
    /\ called' = Call("fetchFailed", 0, "", <<>>)
    /\ Return(p, <<Notif("Sync Error", 0)>>)
    /\ UNCHANGED <<quotes, persisted, conflicts, now, loaded>>

\* mutant of FetchOk: the pending conflict entries follow the records they
\* were taken from, as they would if the merge wrote into the quote objects
\* instead of replacing them
FetchOk_LiveEntries(p, posts) ==
    /\ pc[p] = "fetching"
    /\ LET serverQuotesRaw == fetchServerQuotes(posts, now)
           detected == detectConflicts(serverQuotesRaw, quotes)
           merged == mergeServerData(serverQuotesRaw, quotes)
           live == [k \in 1..Len(conflicts) |->
                       IF conflicts[k].id \in Ids(serverQuotesRaw)
                       THEN [conflicts[k] EXCEPT !.local = merged.quotes[FindIndex(merged.quotes, conflicts[k].id)]]
                       ELSE conflicts[k]]
           ledger == (live \o detected) \o merged.pushed
           shown == IF detected # <<>>
                    THEN <<Notif("Conflicts detected", Len(ledger))>>
                    ELSE <<Notif("Sync Complete", 0)>>
       IN  /\ conflicts' = ledger
           /\ quotes' = merged.quotes
           /\ persisted' = merged.quotes
           /\ NextPost(p, LocalOnlyOf(merged.quotes), shown)
    /\ called' = Call("fetchOk", 0, "", fetchServerQuotes(posts, now))
    /\ UNCHANGED <<now, loaded>>

\* the GET succeeds with body posts: detect, merge, notify, and send the first POST
FetchOk(p, posts) ==
    /\ pc[p] = "fetching"
    /\ LET serverQuotesRaw == fetchServerQuotes(posts, now)
           detected == detectConflicts(serverQuotesRaw, quotes)
           merged == mergeServerData(serverQuotesRaw, quotes)
           ledger == (conflicts \o detected) \o merged.pushed
           shown == IF detected # <<>>
                    THEN <<Notif("Conflicts detected", Len(ledger))>>
                    ELSE <<Notif("Sync Complete", 0)>>
       IN  /\ conflicts' = ledger
           /\ quotes' = merged.quotes
           /\ persisted' = merged.quotes
           /\ NextPost(p, LocalOnlyOf(merged.quotes), shown)
    /\ called' = Call("fetchOk", 0, "", fetchServerQuotes(posts, now))
    /\ UNCHANGED <<now, loaded>>

\* the POST of the head of localOnly succeeds and the server names the record createdId
PostOk(p, createdId) ==
    /\ pc[p] = "posting"
    /\ LET lq == Head(localOnly[p])
           serverVersion == postLocalQuoteToServer(lq, createdId, now)
           idx == FindIndex(quotes, lq.id)
           replaced == IF idx # 0
                       THEN [quotes EXCEPT ![idx] = [serverVersion EXCEPT !.source = "server"]]
                       ELSE quotes
       IN  /\ quotes' = replaced
           /\ persisted' = replaced
    /\ NextPost(p, Tail(localOnly[p]), <<>>)
    /\ called' = Call("postOk", 0, "", <<Head(localOnly[p]), createdId>>)
    /\ UNCHANGED <<conflicts, now, loaded>>

\* mutant of PostFail: the failure is not caught inside the loop and reaches
\* the outer catch, which ends the cycle with the sync-error notification
PostFail_Aborts(p) ==
    /\ pc[p] = "posting"
    /\ Return(p, <<Notif("Sync Error", 0)>>)
    /\ called' = Call("postFailed", 0, "", <<Head(localOnly[p])>>)
    /\ UNCHANGED <<quotes, persisted, conflicts, now, loaded>>

\* mutant of PostFail: a failed POST makes the cycle start over with a new GET
PostFail_Restarts(p) ==
    /\ pc[p] = "posting"
    /\ pc' = [pc EXCEPT ![p] = "fetching"]
    /\ localOnly' = [localOnly EXCEPT ![p] = <<>>]
    /\ emitted' = <<>>
    /\ called' = Call("postFailed", 0, "", <<Head(localOnly[p])>>)
    /\ UNCHANGED <<quotes, persisted, conflicts, now, loaded>>

\* the POST of the head of localOnly fails: console.warn in the inner catch
PostFail(p) ==
    /\ pc[p] = "posting"
    /\ NextPost(p, Tail(localOnly[p]), <<>>)
    /\ called' = Call("postFailed", 0, "", <<Head(localOnly[p])>>)
    /\ UNCHANGED <<quotes, persisted, conflicts, now, loaded>>

----------------------------------------------------------------------------
(* User operations *)

\* addQuote(text, category)
addQuote(text, category) ==
    LET cleanedText == Trim(StringOrEmpty(text))
        cleanedCategory == Trim(StringOrEmpty(category))
        newQ == Quote(uidLocal(LocalNumbersInUse), cleanedText, cleanedCategory, now, "local")
    IN  /\ called' = Call("addQuote", 0, "", <<>>)
        /\ IF cleanedText = <<>> \/ cleanedCategory = <<>>
           THEN /\ emitted' = <<Alert>>
                /\ UNCHANGED <<quotes, persisted>>
           ELSE /\ quotes' = Append(quotes, newQ)
                /\ persisted' = Append(quotes, newQ)
                /\ emitted' = <<Notif("Quote Added", 0)>>
        /\ UNCHANGED <<conflicts, now, pc, localOnly, loaded>>

\* parsed.forEach(item => ...) of importFromJsonFileEvent: the array after the pushes
RECURSIVE ImportLoop(_, _, _)
ImportLoop(items, qs, used) ==
    IF items = <<>> THEN qs
    ELSE LET item == Head(items)
             n == FreshNumber(used)
         IN  IF IsString(item.text) /\ IsString(item.category)
             THEN ImportLoop(Tail(items),
                      Append(qs, Quote(LocalIdOf(n), Trim(item.text), Trim(item.category), now, "local")),
                      used \cup {n})
             ELSE ImportLoop(Tail(items), qs, used)

\* reader.onload of importFromJsonFileEvent; parsed is JSON.parse(ev.target.result):
\* an array of items { text, category }, or something that is not an array
importFromJsonFileEvent(parsed) ==
    /\ called' = Call("importFromJsonFileEvent", 0, "", <<>>)
    /\ IF ~parsed.isArray
       THEN /\ emitted' = <<Alert>>
            /\ UNCHANGED <<quotes, persisted>>
       ELSE LET after == ImportLoop(parsed.items, quotes, LocalNumbersInUse)
                added == Len(after) - Len(quotes)
            IN  /\ quotes' = after
                /\ IF added > 0
                   THEN /\ persisted' = after
                        /\ emitted' = <<Notif("Import Complete", added)>>
                   ELSE /\ persisted' = persisted
                        /\ emitted' = <<Alert>>
    /\ UNCHANGED <<conflicts, now, pc, localOnly, loaded>>

\* mutant of Splice1: conflicts.splice(conflictIndex), which removes the rest of the array
Splice1_ToEnd(cs, conflictIndex) == SubSeq(cs, 1, conflictIndex)

\* conflicts.splice(conflictIndex, 1); conflictIndex counts from 0
Splice1(cs, conflictIndex) ==
    [i \in 1..(Len(cs) - 1) |-> IF i <= conflictIndex THEN cs[i] ELSE cs[i + 1]]

Choices == {"server", "local"}

\* mutant of applyConflictChoice: the restored record keeps the source of the
\* stored local version
applyConflictChoice_KeepsSource(conflictIndex, choice) ==
    /\ called' = Call("applyConflictChoice", conflictIndex, choice, <<>>)
    /\ IF conflictIndex + 1 \notin 1..Len(conflicts)
       THEN /\ emitted' = <<>>
            /\ UNCHANGED <<quotes, persisted, conflicts>>
       ELSE LET c == conflicts[conflictIndex + 1]
                i == FindIndex(quotes, c.id)
                restored == [c.local EXCEPT !.updatedAt = now]
                after == IF i # 0 THEN [quotes EXCEPT ![i] = restored] ELSE Append(quotes, restored)
            IN  /\ quotes' = (IF choice = "server" THEN quotes ELSE after)
                /\ persisted' = quotes'
                /\ conflicts' = Splice1(conflicts, conflictIndex)
                /\ emitted' = <<Notif("Conflict Resolved", 0)>>
    /\ UNCHANGED <<now, pc, localOnly, loaded>>

\* mutant of applyConflictChoice: an index past the end is taken to mean the
\* last entry
applyConflictChoice_Clamps(conflictIndex, choice) ==
    LET k == IF conflictIndex + 1 > Len(conflicts) THEN Len(conflicts) ELSE conflictIndex + 1
    IN  /\ called' = Call("applyConflictChoice", conflictIndex, choice, <<>>)
        /\ IF k = 0
           THEN /\ emitted' = <<>>
                /\ UNCHANGED <<quotes, persisted, conflicts>>
           ELSE LET c == conflicts[k]
                    i == FindIndex(quotes, c.id)
                    restored == [c.local EXCEPT !.source = "local", !.updatedAt = now]
                    after == IF i # 0 THEN [quotes EXCEPT ![i] = restored] ELSE Append(quotes, restored)
                IN  /\ quotes' = (IF choice = "server" THEN quotes ELSE after)
                    /\ persisted' = quotes'
                    /\ conflicts' = Splice1(conflicts, k - 1)
                    /\ emitted' = <<Notif("Conflict Resolved", 0)>>
        /\ UNCHANGED <<now, pc, localOnly, loaded>>

\* mutant of applyConflictChoice: the keep-local branch calls saveLocalQuotes
\* before it writes the restored record into quotes
applyConflictChoice_SavesFirst(conflictIndex, choice) ==
    /\ called' = Call("applyConflictChoice", conflictIndex, choice, <<>>)
    /\ IF conflictIndex + 1 \notin 1..Len(conflicts)
       THEN /\ emitted' = <<>>
            /\ UNCHANGED <<quotes, persisted, conflicts>>
       ELSE LET c == conflicts[conflictIndex + 1]
                i == FindIndex(quotes, c.id)
                restored == [c.local EXCEPT !.source = "local", !.updatedAt = now]
                after == IF i # 0 THEN [quotes EXCEPT ![i] = restored] ELSE Append(quotes, restored)
            IN  /\ quotes' = (IF choice = "server" THEN quotes ELSE after)
                /\ persisted' = quotes
                /\ conflicts' = Splice1(conflicts, conflictIndex)
                /\ emitted' = <<Notif("Conflict Resolved", 0)>>
    /\ UNCHANGED <<now, pc, localOnly, loaded>>

\* applyConflictChoice(conflictIndex, choice)
applyConflictChoice(conflictIndex, choice) ==
    /\ called' = Call("applyConflictChoice", conflictIndex, choice, <<>>)
    /\ IF conflictIndex + 1 \notin 1..Len(conflicts)
       THEN /\ emitted' = <<>>
            /\ UNCHANGED <<quotes, persisted, conflicts>>
       ELSE LET c == conflicts[conflictIndex + 1]
                i == FindIndex(quotes, c.id)
                restored == [c.local EXCEPT !.source = "local", !.updatedAt = now]
                after == IF i # 0 THEN [quotes EXCEPT ![i] = restored] ELSE Append(quotes, restored)
            IN  IF choice = "server"
                THEN /\ conflicts' = Splice1(conflicts, conflictIndex)
                     /\ persisted' = quotes
                     /\ quotes' = quotes
                     /\ emitted' = <<Notif("Conflict Resolved", 0)>>
                ELSE /\ quotes' = after
                     /\ persisted' = after
                     /\ conflicts' = Splice1(conflicts, conflictIndex)
                     /\ emitted' = <<Notif("Conflict Resolved", 0)>>
    /\ UNCHANGED <<now, pc, localOnly, loaded>>

----------------------------------------------------------------------------
(* The program: init() has run up to the first await of its syncWithServer() *)

\* loadLocalQuotes, when localStorage holds no array: the seed defaults
SeedQuotes ==
    << Quote(LocalIdOf(1), <<"B">>, <<"M">>, 0, "local"),
       Quote(LocalIdOf(2), <<"S">>, <<"I">>, 0, "local"),
       Quote(LocalIdOf(3), <<"C">>, <<"P">>, 0, "local") >>

\* loadLocalQuotes, when localStorage holds the array of an earlier session
StoredQuotes == {<<Quote(LocalIdOf(1), <<"b">>, <<"x">>, 0, "local")>>}

InitWith(stores, clocks) ==
    /\ quotes \in stores
    /\ persisted = quotes
    /\ conflicts = <<>>
    /\ now \in clocks
    /\ pc = [p \in Procs |-> IF p = 1 THEN "fetching" ELSE "idle"]
    /\ localOnly = [p \in Procs |-> <<>>]
    /\ called = Call("init", 0, "", <<>>)
    /\ emitted = <<>>
    /\ loaded = quotes

Init == InitWith(StoredQuotes, {0})

\* what the user types into the Add Quote form
TypedTexts == {<<" ", "a">>}
TypedCategories == {<<"x", " ">>}

ImportItems == [text : {<<"a", " ">>}, category : {<<"x">>}]
ImportFiles == {[isArray |-> TRUE, items |-> s] : s \in SeqsUpTo(ImportItems, MaxImport) \ {<<>>}}

\* the titles of the posts the server holds
ServerTitles == {<<" ", "a">>}

\* the arrays stay within the bounds
Bounded == Len(quotes') <= MaxQuotes /\ Len(conflicts') <= MaxConflicts

Next ==
    \/ syncWithServer
    \/ \E p \in Procs : FetchFail(p)
    \/ \E p \in Procs, posts \in ResponsesUpTo(MaxSnap, MaxServerId, ServerTitles) : FetchOk(p, posts) /\ Bounded
    \/ \E p \in Procs, createdId \in 1..MaxServerId : PostOk(p, createdId)
    \/ \E p \in Procs : PostFail(p)
    \/ \E text \in TypedTexts, category \in TypedCategories : addQuote(text, category) /\ Bounded
    \/ \E parsed \in ImportFiles : importFromJsonFileEvent(parsed) /\ Bounded
    \/ \E conflictIndex \in 0..(Len(conflicts) - 1), choice \in Choices :
           applyConflictChoice(conflictIndex, choice) /\ Bounded

Spec == Init /\ [][Next]_vars

----------------------------------------------------------------------------
(* The program up to the return of the syncWithServer() call that init     *)
(* awaits (script.js:520): that call is suspended in every state a step    *)
(* starts from, so whatever is added is added while it is suspended.       *)

NextFirstCycle == pc[1] # "idle" /\ Next

SpecFirstCycle == Init /\ [][NextFirstCycle]_vars

----------------------------------------------------------------------------
(* One merge pass and the resolutions that follow it, on the arrays an     *)
(* earlier session may have left in localStorage: records created locally, *)
(* records taken from the server or posted to it, and records restored by  *)
(* a keep-local choice; two posted records may carry the same server id.   *)

LoadableRecords ==
    {Quote(LocalIdOf(n), <<"a">>, <<"x">>, 0, "local") : n \in 1..MaxLoaded}
        \cup {Quote(ServerIdOf(n), text, UserCategory("1"), 0, "server") :
                 n \in 1..MaxBodyId, text \in {<<"a">>, <<"b">>}}
        \cup {Quote(ServerIdOf(n), <<"b">>, <<"x">>, 0, "server") : n \in 1..MaxBodyId}
        \cup {Quote(ServerIdOf(n), <<"a">>, <<"x">>, 0, "local") : n \in 1..MaxBodyId}

LoadableStores ==
    {qs \in SeqsUpTo(LoadableRecords, MaxLoaded) :
        /\ qs # <<>>
        /\ \A i, j \in 1..Len(qs) : (i # j /\ StartsWithLocal(qs[i].id)) => qs[i].id # qs[j].id}
        \cup {SeedQuotes}

InitLedger == InitWith(LoadableStores, {1})

\* the titles of the posts the server holds
LedgerTitles == {<<"a">>, <<" ", "b">>}

NextLedger ==
    \/ \E text \in TypedTexts, category \in TypedCategories :
           addQuote(text, category) /\ Len(quotes') <= MaxLoaded
    \/ \E p \in Procs : FetchFail(p)
    \/ \E p \in Procs, posts \in ResponsesUpTo(MaxBody, MaxBodyId, LedgerTitles) : FetchOk(p, posts)
    \/ \E conflictIndex \in 0..Len(conflicts), choice \in Choices : applyConflictChoice(conflictIndex, choice)

SpecLedger == InitLedger /\ [][NextLedger]_vars

----------------------------------------------------------------------------
(* Scheduling.  A fetch() promise settles: the cycle that awaits a GET or  *)
(* a POST is resumed with the response or with the failure.  The program   *)
(* is the one of Spec without the file import, with its own bounds.        *)

BoundedLive == Len(quotes') <= MaxLiveQuotes /\ Len(conflicts') <= MaxConflicts

\* cycle p is resumed from its await
Resume(p) ==
    \/ FetchFail(p)
    \/ \E posts \in ResponsesUpTo(MaxSnap, MaxServerId, ServerTitles) : FetchOk(p, posts) /\ BoundedLive
    \/ \E createdId \in 1..MaxServerId : PostOk(p, createdId)
    \/ PostFail(p)

\* a caller of syncWithServer: init, the timer, the "Sync Now" button
Trigger == syncWithServer /\ Cardinality({p \in Procs : pc'[p] # "idle"}) <= MaxLiveCycles

NextCycles ==
    \/ Trigger
    \/ \E p \in Procs : Resume(p)
    \/ \E text \in TypedTexts, category \in TypedCategories : addQuote(text, category) /\ BoundedLive
    \/ \E conflictIndex \in 0..(Len(conflicts) - 1), choice \in Choices :
           applyConflictChoice(conflictIndex, choice) /\ BoundedLive

TransportReturns == \A p \in Procs : WF_vars(Resume(p))

SpecReturns == Init /\ [][NextCycles]_vars /\ TransportReturns

\* the numbers uidLocal can have handed out to objects that are still live
LocalNumbers == 1..(MaxLiveQuotes * (MaxLiveCycles + 1))

\* the POST of the local quote numbered n is answered
PostOkOf(n) ==
    \E p \in Procs, createdId \in 1..MaxServerId :
        PostOk(p, createdId) /\ Head(localOnly[p]).id = LocalIdOf(n)

\* the GET of some cycle is answered
SomeFetchOk ==
    \E p \in Procs, posts \in ResponsesUpTo(MaxSnap, MaxServerId, ServerTitles) : FetchOk(p, posts) /\ BoundedLive

\* setInterval keeps calling syncWithServer (script.js:523), the server keeps
\* answering the GET now and then, and the POST of each quote is answered if
\* it is sent again and again
SpecRetry ==
    /\ Init /\ [][NextCycles]_vars
    /\ TransportReturns
    /\ WF_vars(Trigger)
    /\ SF_vars(SomeFetchOk)
    /\ \A n \in LocalNumbers : SF_vars(PostOkOf(n))

----------------------------------------------------------------------------
(* The program while the server cannot be reached: the Add Quote form and  *)
(* the import of a JSON file, with everything a form field or a file may   *)
(* hold: nothing, blanks, text with blanks around it, values that are not  *)
(* strings, and a file that is not an array.                               *)

FormValues == {NotAString, <<" ">>, <<" ", "a">>}

FileTexts == {NotAString, <<>>, <<" ">>, <<"a", " ">>}
FileCategories == {NotAString, <<" ">>, <<"x">>}

FileItems == [text : FileTexts, category : FileCategories]

ParsedFiles ==
    {[isArray |-> TRUE, items |-> s] : s \in SeqsUpTo(FileItems, MaxFile)}
        \cup {[isArray |-> FALSE, items |-> <<>>]}

NextIntake ==
    \/ syncWithServer
    \/ \E p \in Procs : FetchFail(p)
    \/ \E text \in FormValues, category \in FormValues :
           addQuote(text, category) /\ Len(quotes') <= MaxIntake
    \/ \E parsed \in ParsedFiles :
           importFromJsonFileEvent(parsed) /\ Len(quotes') <= MaxIntake

SpecIntake == Init /\ [][NextIntake]_vars

----------------------------------------------------------------------------
(* The earlier sync variant, unnamed/part_000: quotes are { text, category } *)
(* objects without ids; fetchQuotesFromServer is called on DOMContentLoaded  *)
(* and by a 30 s timer, and addQuote posts the new quote without waiting.    *)
(* The variables quotes, persisted, pc, called and emitted are used.         *)

EarlierSliceLimit == 5

ServerCategory == <<"S", "e", "r", "v", "e", "r">>

EarlierQuote(text, category) == [text |-> text, category |-> category]

\* serverData.slice(0, 5).map(item => ({ text: item.title, category: "Server" }))
EarlierServerQuotes(serverData) ==
    LET first == SubSeq(serverData, 1,
                     IF Len(serverData) < EarlierSliceLimit THEN Len(serverData) ELSE EarlierSliceLimit)
    IN  [i \in 1..Len(first) |-> EarlierQuote(first[i].title, ServerCategory)]

\* quotes.some(q => q.text === sq.text)
SomeWithText(qs, text) == \E i \in 1..Len(qs) : qs[i].text = text

\* serverQuotes.forEach(sq => { if (!exists) quotes.push(sq) }): the array after the loop
RECURSIVE SyncLoop(_, _)
SyncLoop(sqs, qs) ==
    IF sqs = <<>> THEN qs
    ELSE SyncLoop(Tail(sqs),
             IF SomeWithText(qs, Head(sqs).text) THEN qs ELSE Append(qs, Head(sqs)))

\* fetchQuotesFromServer up to its await: the GET is sent
fetchQuotesFromServer ==
    /\ Running # Procs
    /\ pc' = [pc EXCEPT ![FreeSlot] = "fetching"]
    /\ called' = Call("fetchQuotesFromServer", 0, "", <<>>)
    /\ emitted' = <<>>
    /\ UNCHANGED <<quotes, persisted, conflicts, now, localOnly, loaded>>

\* the GET is answered with serverData: push the server quotes whose text no
\* quote has, and save and notify when one was pushed
FetchedOk(p, serverData) ==
    /\ pc[p] = "fetching"
    /\ pc' = [pc EXCEPT ![p] = "idle"]
    /\ LET after == SyncLoop(EarlierServerQuotes(serverData), quotes)
           updated == Len(after) > Len(quotes)
       IN  /\ quotes' = after
           /\ persisted' = (IF updated THEN after ELSE persisted)
           /\ emitted' = (IF updated THEN <<Notif("New quotes synced from server!", 0)>> ELSE <<>>)
    /\ called' = Call("fetchedOk", 0, "", EarlierServerQuotes(serverData))
    /\ UNCHANGED <<conflicts, now, localOnly, loaded>>

\* the GET or response.json() fails: console.error in the catch
FetchedFail(p) ==
    /\ pc[p] = "fetching"
    /\ pc' = [pc EXCEPT ![p] = "idle"]
    /\ called' = Call("fetchedFail", 0, "", <<>>)
    /\ emitted' = <<>>
    /\ UNCHANGED <<quotes, persisted, conflicts, now, localOnly, loaded>>

\* addQuote of part_000 on the values of the two form fields; the POST that
\* postQuoteToServer sends only logs its outcome
EarlierAddQuote(textField, categoryField) ==
    LET text == Trim(textField)
        category == Trim(categoryField)
    IN  /\ called' = Call("addQuote", 0, "", <<>>)
        /\ emitted' = <<Alert>>
        /\ IF text = <<>> \/ category = <<>>
           THEN UNCHANGED <<quotes, persisted>>
           ELSE /\ quotes' = Append(quotes, EarlierQuote(text, category))
                /\ persisted' = Append(quotes, EarlierQuote(text, category))
        /\ UNCHANGED <<conflicts, now, pc, localOnly, loaded>>

EarlierTexts == {<<"a">>, <<"b">>}

\* JSON.parse(localStorage.getItem("quotes")) || []
EarlierStores ==
    SeqsUpTo({EarlierQuote(t, c) : t \in EarlierTexts, c \in {<<"x">>, ServerCategory}}, MaxEarlierStored)

EarlierData == SeqsUpTo([title : EarlierTexts], MaxEarlierData)

EarlierFields == {<<" ">>, <<"a", " ">>, <<"x">>}

InitEarlier ==
    /\ quotes \in EarlierStores
    /\ persisted = quotes
    /\ conflicts = <<>>
    /\ now = 0
    /\ pc = [p \in Procs |-> IF p = 1 THEN "fetching" ELSE "idle"]
    /\ localOnly = [p \in Procs |-> <<>>]
    /\ called = Call("DOMContentLoaded", 0, "", <<>>)
    /\ emitted = <<>>
    /\ loaded = quotes

NextEarlier ==
    \/ fetchQuotesFromServer
    \/ \E p \in Procs, serverData \in EarlierData :
           FetchedOk(p, serverData) /\ Len(quotes') <= MaxEarlierQuotes
    \/ \E p \in Procs : FetchedFail(p)
    \/ \E textField \in EarlierFields, categoryField \in EarlierFields :
           EarlierAddQuote(textField, categoryField) /\ Len(quotes') <= MaxEarlierQuotes

SpecEarlier == InitEarlier /\ [][NextEarlier]_vars

----------------------------------------------------------------------------
(* Properties.  A step is recognised by the record it leaves in called:    *)
(* every action writes it.                                                 *)

\* the conflict entries a step appends to the conflicts array
Added == SubSeq(conflicts', Len(conflicts) + 1, Len(conflicts'))

\* cs without its k-th entry (k counts from 1)
RemoveAt(cs, k) == SubSeq(cs, 1, k - 1) \o SubSeq(cs, k + 1, Len(cs))

Occurrences(qs, id) == Cardinality({i \in 1..Len(qs) : qs[i].id = id})

NoRepeatedId(qs) == \A i, j \in 1..Len(qs) : i # j => qs[i].id # qs[j].id

\* a successful fetch has just been merged; called'.arg is the remote snapshot
MergeStep == called'.op = "fetchOk"

\* applyConflictChoice has just run on an entry of the conflicts array
ResolveStep(choice) ==
    /\ called'.op = "applyConflictChoice"
    /\ called'.choice = choice
    /\ called'.index + 1 \in 1..Len(conflicts)

\* applyConflictChoice has just run with an index that names no entry
StaleResolveStep ==
    /\ called'.op = "applyConflictChoice"
    /\ called'.index + 1 \notin 1..Len(conflicts)

\* C1: no two records of the quotes array share an id.
C1_UniqueIds == NoRepeatedId(quotes)

\* C2: at most one sync cycle is in progress at any time.
C2_OneCycleAtATime == Cardinality(Running) <= 1

\* C3 as stated, for the cycle init starts (the only one of SpecLedger, which
\* starts from the loaded array and an empty conflicts array): when its fetch
\* fails, quotes, the persisted array and conflicts are what they were at the
\* start of the cycle, and a sync-error notification is shown.
C3_FailedFetchRestoresStart ==
    [][called'.op = "fetchFailed" =>
          /\ quotes' = loaded /\ persisted' = loaded /\ conflicts' = <<>>
          /\ emitted' = <<Notif("Sync Error", 0)>>]_vars

\* C3 amended: the step that handles a failed fetch changes neither quotes nor
\* the persisted array nor conflicts, ends the cycle without a post having
\* been sent (fetching to idle, nothing in flight), leaves the other cycles
\* alone and shows exactly the sync-error notification.
C3_FailedFetchChangesNothing ==
    [][called'.op = "fetchFailed" =>
          /\ quotes' = quotes /\ persisted' = persisted /\ conflicts' = conflicts
          /\ emitted' = <<Notif("Sync Error", 0)>>
          /\ \E p \in Procs :
                /\ pc[p] = "fetching" /\ pc'[p] = "idle" /\ localOnly'[p] = <<>>
                /\ \A q \in Procs \ {p} : pc'[q] = pc[q] /\ localOnly'[q] = localOnly[q]]_vars

\* a fetch has failed after the user added a quote while it was pending
C3_Witness ==
    /\ called.op = "fetchFailed"
    /\ emitted = <<Notif("Sync Error", 0)>>
    /\ Len(quotes) > Len(loaded)
    /\ persisted = quotes
    /\ \A p \in Procs : pc[p] = "idle"

\* C4: in one merge pass, an id held once by each side whose text or category
\* differ gets exactly one entry appended to conflicts, holding that local and
\* that remote version, and the merged array holds the remote version; an id
\* whose text and category agree gets no entry.
C4_OneEntryPerConflict ==
    [][MergeStep =>
          \A id \in Ids(quotes) \cap Ids(called'.arg) :
              (Occurrences(quotes, id) = 1 /\ Occurrences(called'.arg, id) = 1) =>
                  LET l == quotes[FindIndex(quotes, id)]
                      s == called'.arg[FindIndex(called'.arg, id)]
                      entries == {k \in 1..Len(Added) : Added[k].id = id}
                  IN  IF Differs(l, s)
                      THEN /\ Cardinality(entries) = 1
                           /\ \A k \in entries : Added[k].local = l /\ Added[k].server = s
                           /\ \E j \in 1..Len(quotes') :
                                 /\ quotes'[j].id = id
                                 /\ quotes'[j].text = s.text
                                 /\ quotes'[j].category = s.category
                      ELSE entries = {}]_vars

\* C5: merging the snapshot that has just been merged once more gives the
\* same quotes array, record for record and in the same order.
C5_MergeIdempotent ==
    [][MergeStep => mergeServerData(called'.arg, quotes').quotes = quotes']_vars

\* a merge that replaced a differing record and kept a record the server lacks
C5_Witness ==
    /\ called.op = "fetchOk"
    /\ called.arg # <<>>
    /\ conflicts # <<>>
    /\ \E i \in 1..Len(quotes) : quotes[i].id \notin Ids(called.arg)
    /\ \E i \in 1..Len(quotes) : quotes[i].id \in Ids(called.arg)

\* C6: the records whose id the snapshot lacks are, after the merge, the same
\* records in the same order; an empty snapshot leaves quotes as it was and
\* appends no conflict entry.
C6_LocalOnlySurvive ==
    [][MergeStep =>
          LET absent(q) == q.id \notin Ids(called'.arg)
          IN  /\ SelectSeq(quotes', absent) = SelectSeq(quotes, absent)
              /\ called'.arg = <<>> => (quotes' = quotes /\ conflicts' = conflicts)]_vars

\* C7: when the ids of the snapshot are distinct, every record of the snapshot
\* is in the merged array under its id, with the remote text and category and
\* source "server".
C7_RemotePrecedence ==
    [][(MergeStep /\ NoRepeatedId(called'.arg)) =>
          \A i \in 1..Len(called'.arg) :
              \E j \in 1..Len(quotes') :
                  /\ quotes'[j].id = called'.arg[i].id
                  /\ quotes'[j].text = called'.arg[i].text
                  /\ quotes'[j].category = called'.arg[i].category
                  /\ quotes'[j].source = "server"]_vars

\* a snapshot of two ids has been merged, one replacing a differing record
\* (it left a conflict entry), into an array that kept a record of its own
C7_Witness ==
    /\ called.op = "fetchOk"
    /\ Len(called.arg) = 2
    /\ NoRepeatedId(called.arg)
    /\ \E k \in 1..Len(conflicts) : conflicts[k].id \in Ids(called.arg)
    /\ Len(quotes) > 2

\* C8: keep-local on a pending entry of id X overwrites the first record of id
\* X in place (or appends one when there is none) with the text and category
\* of the entry's local version and source "local", changes no other record,
\* and removes exactly that entry from conflicts.
C8_KeepLocalRestores ==
    [][ResolveStep("local") =>
          LET c == conflicts[called'.index + 1]
              i == FindIndex(quotes, c.id)
              at == IF i # 0 THEN i ELSE Len(quotes) + 1
          IN  /\ conflicts' = RemoveAt(conflicts, called'.index + 1)
              /\ Len(quotes') = (IF i # 0 THEN Len(quotes) ELSE Len(quotes) + 1)
              /\ quotes'[at].id = c.id
              /\ quotes'[at].text = c.local.text
              /\ quotes'[at].category = c.local.category
              /\ quotes'[at].source = "local"
              /\ \A j \in 1..Len(quotes) : j # at => quotes'[j] = quotes[j]
              /\ persisted' = quotes']_vars

\* a keep-local choice has put back a local version under a server id, next
\* to another record, and other entries are still pending
C8_Witness ==
    /\ called.op = "applyConflictChoice"
    /\ called.choice = "local"
    /\ emitted = <<Notif("Conflict Resolved", 0)>>
    /\ conflicts # <<>>
    /\ Len(quotes) >= 2
    /\ \E i \in 1..Len(quotes) : quotes[i].source = "local" /\ ~StartsWithLocal(quotes[i].id)

\* C9: keep-remote on a pending entry removes exactly that entry (the others
\* keep content and order) and leaves the quotes array as it was.
C9_KeepRemoteFrame ==
    [][ResolveStep("server") =>
          /\ conflicts' = RemoveAt(conflicts, called'.index + 1)
          /\ quotes' = quotes
          /\ persisted' = quotes]_vars

\* a keep-remote choice has removed one entry of several
C9_Witness ==
    /\ called.op = "applyConflictChoice"
    /\ called.choice = "server"
    /\ emitted = <<Notif("Conflict Resolved", 0)>>
    /\ Len(conflicts) >= 2
    /\ \E i, j \in 1..Len(conflicts) : conflicts[i] # conflicts[j]

PostOkStep == called'.op = "postOk"

\* C11: when the POST of a local quote of id L is answered with id R while a
\* record of id L is in quotes, afterwards no record has id L, and the record
\* at the position L had carries id R, source "server" and the text and
\* category it had; the other records are as they were and the persisted
\* array is the new quotes array.
C11_PostedRecordRewritten ==
    [][PostOkStep =>
          LET lq == called'.arg[1]
              R == ServerIdOf(called'.arg[2])
              idx == FindIndex(quotes, lq.id)
          IN  idx # 0 =>
                  /\ lq.id \notin Ids(quotes')
                  /\ Len(quotes') = Len(quotes)
                  /\ quotes'[idx].id = R
                  /\ quotes'[idx].source = "server"
                  /\ quotes'[idx].text = quotes[idx].text
                  /\ quotes'[idx].category = quotes[idx].category
                  /\ quotes'[idx].text = lq.text
                  /\ quotes'[idx].category = lq.category
                  /\ \A j \in 1..Len(quotes) : j # idx => quotes'[j] = quotes[j]
                  /\ persisted' = quotes']_vars

\* a local quote standing after another record has been posted and now
\* carries the id the server gave it
C11_Witness ==
    /\ called.op = "postOk"
    /\ called.arg[1].id \notin Ids(quotes)
    /\ Len(quotes) >= 2
    /\ quotes[Len(quotes)].id = ServerIdOf(called.arg[2])
    /\ quotes[Len(quotes)].text = called.arg[1].text
    /\ quotes[Len(quotes)].category = called.arg[1].category
    /\ quotes[Len(quotes)].source = "server"
    /\ persisted = quotes

\* C12: when the POST of a local quote fails, quotes (the quote that was
\* posted included), the persisted array and conflicts stay as they are, no
\* notification is shown, and the cycle goes on to the POST of the next quote
\* of its localOnly array, or ends when there is none; the other cycles are
\* left alone.
C12_PostFailureIsolated ==
    [][called'.op = "postFailed" =>
          /\ quotes' = quotes /\ persisted' = persisted /\ conflicts' = conflicts
          /\ emitted' = <<>>
          /\ \E p \in Procs :
                /\ pc[p] = "posting"
                /\ Head(localOnly[p]) = called'.arg[1]
                /\ IF Tail(localOnly[p]) # <<>>
                   THEN pc'[p] = "posting" /\ localOnly'[p] = Tail(localOnly[p])
                   ELSE pc'[p] = "idle" /\ localOnly'[p] = <<>>
                /\ \A q \in Procs \ {p} : pc'[q] = pc[q] /\ localOnly'[q] = localOnly[q]]_vars

\* the POST of the first of two local quotes has failed: the quote is still in
\* quotes, and the only cycle running is awaiting the POST of the second
C12_Witness ==
    /\ called.op = "postFailed"
    /\ emitted = <<>>
    /\ \E i \in 1..Len(quotes) : quotes[i] = called.arg[1] /\ quotes[i].source = "local"
    /\ Cardinality(Running) = 1
    /\ \E p \in Procs :
          /\ pc[p] = "posting"
          /\ localOnly[p] # <<>>
          /\ Head(localOnly[p]) # called.arg[1]

\* the records of qs whose source is "local", in array order
LocalSourceOf(qs) == SelectSeq(qs, LAMBDA q : q.source = "local")

\* C13: after the merge of a successful fetch, the cycle posts every record
\* of quotes whose source is "local", one after the other in array order, a
\* record restored by a keep-local choice under a server id included; it ends
\* at once only when there is no such record.
C13_EveryLocalSourcePosted ==
    [][MergeStep =>
          \E p \in Procs :
              /\ pc[p] = "fetching"
              /\ pc'[p] # "fetching"
              /\ IF LocalSourceOf(quotes') = <<>>
                 THEN pc'[p] = "idle"
                 ELSE pc'[p] = "posting" /\ localOnly'[p] = LocalSourceOf(quotes')]_vars

\* C14: every record of quotes has a text and a category that are not empty
\* (the loaded records have; addQuote and the import are the only operations
\* of SpecIntake that admit records).
C14_AdmittedNonEmpty ==
    \A i \in 1..Len(quotes) : quotes[i].text # <<>> /\ quotes[i].category # <<>>

\* a is an initial part of b
IsPrefix(a, b) == Len(a) <= Len(b) /\ SubSeq(b, 1, Len(a)) = a

\* C15: no step changes the local or the server version of a pending conflict
\* entry: a step either leaves the pending entries in place (appending new
\* ones after them, or none) or removes exactly one; and a keep-local choice
\* writes the text and category stored in the entry.
C15_EntriesAreSnapshots ==
    [][/\ \/ IsPrefix(conflicts, conflicts')
          \/ \E k \in 1..Len(conflicts) : conflicts' = RemoveAt(conflicts, k)
       /\ ResolveStep("local") =>
              LET c == conflicts[called'.index + 1]
              IN  \E i \in 1..Len(quotes') :
                      /\ quotes'[i].id = c.id
                      /\ quotes'[i].text = c.local.text
                      /\ quotes'[i].category = c.local.category]_vars

\* a later merge has gone over the id of a pending entry without producing a
\* conflict: the record of that id is no longer the entry's local version,
\* and the entry still stores the version taken when it was created
C15_Witness ==
    /\ called.op = "fetchOk"
    /\ emitted = <<Notif("Sync Complete", 0)>>
    /\ \E k \in 1..Len(conflicts) :
          /\ conflicts[k].id \in Ids(called.arg)
          /\ conflicts[k].id \in Ids(quotes)
          /\ Differs(conflicts[k].local, quotes[FindIndex(quotes, conflicts[k].id)])

\* a record of this id has source "local"
LocalAt(id) == \E i \in 1..Len(quotes) : quotes[i].id = id /\ quotes[i].source = "local"

TrackedIds == {LocalIdOf(n) : n \in LocalNumbers} \cup {ServerIdOf(n) : n \in 1..MaxServerId}

\* C16: a record whose source is "local" does not stay so for ever: under
\* its id there is eventually no record of source "local" any more (it has
\* been replaced by the record the server named, of source "server").
C16_LocalEventuallyRemote == \A id \in TrackedIds : LocalAt(id) ~> ~LocalAt(id)

\* the cycle p that the step resumed goes from its await to the POST of the
\* first quote of rest, or returns when rest is empty
Advances(p, await, rest) ==
    /\ pc[p] = await
    /\ IF rest = <<>>
       THEN pc'[p] = "idle" /\ localOnly'[p] = <<>>
       ELSE pc'[p] = "posting" /\ localOnly'[p] = rest

\* C19: a cycle that has started (it awaits its GET or a POST) eventually
\* returns, once every response or failure has come in; it returns at once
\* when the GET fails, and otherwise after one POST, answered or failed, for
\* each quote of the localOnly array it selected after the merge.
C19_CycleReturns ==
    /\ \A p \in Procs : (pc[p] # "idle") ~> (pc[p] = "idle")
    /\ [][/\ called'.op = "fetchFailed" => \E p \in Procs : Advances(p, "fetching", <<>>)
          /\ called'.op = "fetchOk" => \E p \in Procs : Advances(p, "fetching", LocalOnlyOf(quotes'))
          /\ called'.op \in {"postOk", "postFailed"} =>
                 \E p \in Procs :
                     /\ pc[p] = "posting"
                     /\ Head(localOnly[p]) = called'.arg[1]
                     /\ Advances(p, "posting", Tail(localOnly[p]))]_vars

\* a cycle has returned after the POSTs of its two local quotes, the last of
\* which failed; no cycle is running
C19_Witness ==
    /\ called.op = "postFailed"
    /\ \A p \in Procs : pc[p] = "idle" /\ localOnly[p] = <<>>
    /\ Len(quotes) = 2
    /\ quotes[2] = called.arg[1]
    /\ ~StartsWithLocal(quotes[1].id)

\* the last record of qs that carries this id
LastOf(qs, id) == qs[CHOOSE i \in 1..Len(qs) : qs[i].id = id /\ \A j \in (i + 1)..Len(qs) : qs[j].id # id]

\* C17: when the snapshot holds an id more than once and quotes holds no
\* record of that id, the merge appends no conflict entry for the id, and the
\* merged array holds one record of the id, with the text and category of its
\* last occurrence in the snapshot.
C17_SnapshotDuplicatesNotConflicts ==
    [][MergeStep =>
          \A id \in Ids(called'.arg) :
              (Occurrences(called'.arg, id) >= 2 /\ id \notin Ids(quotes)) =>
                  /\ \A k \in 1..Len(Added) : Added[k].id # id
                  /\ Occurrences(quotes', id) = 1
                  /\ quotes'[FindIndex(quotes', id)].text = LastOf(called'.arg, id).text
                  /\ quotes'[FindIndex(quotes', id)].category = LastOf(called'.arg, id).category]_vars

\* C18: the step that merges a successful fetch shows exactly one
\* notification, "Conflicts detected" when the merge appended at least one
\* conflict entry and "Sync Complete" when it appended none; the merged array
\* has been saved by then.
C18_OneOutcomeNotification ==
    [][MergeStep =>
          /\ Len(emitted') = 1
          /\ emitted'[1].title = (IF Added # <<>> THEN "Conflicts detected" ELSE "Sync Complete")
          /\ persisted' = quotes']_vars

\* C20: a record that a keep-local choice has put back (source "local" under
\* a server id; such a record is the first of its id) and that differs in
\* text or category from the record of its id in the snapshot is overwritten
\* by the merge with the remote text and category and source "server", and
\* the merge appends a conflict entry for the id.
C20_RestoredIsOverwrittenAgain ==
    [][MergeStep =>
          \A id \in Ids(called'.arg) \cap Ids(quotes) :
              LET restored == quotes[FindIndex(quotes, id)]
                  remote == LastOf(called'.arg, id)
              IN  (/\ restored.source = "local"
                   /\ ~StartsWithLocal(id)
                   /\ Differs(restored, remote)) =>
                      /\ \E j \in 1..Len(quotes') :
                             /\ quotes'[j].id = id
                             /\ quotes'[j].text = remote.text
                             /\ quotes'[j].category = remote.category
                             /\ quotes'[j].source = "server"
                      /\ ~LocalAt(id)'
                      /\ \E k \in 1..Len(Added) : Added[k].id = id]_vars

\* the <<text, category>> pairs addQuote and the import can push
AddedContents ==
    {<<Trim(StringOrEmpty(t)), Trim(StringOrEmpty(c))>> : t \in TypedTexts, c \in TypedCategories}
        \cup {<<Trim(item.text), Trim(item.category)>> : item \in ImportItems}

HasContent(qs, tc) == \E i \in 1..Len(qs) : qs[i].text = tc[1] /\ qs[i].category = tc[2]

\* C21: while the syncWithServer() call of init has not returned, a quote
\* that was added since it started (its text and category were not in the
\* loaded array) stays in quotes with its text and category, under its local
\* id or under the id a POST gave it, through every step up to and including
\* the return of that call.
C21_AddedRecordKept ==
    [][\A tc \in AddedContents :
          (pc[1] # "idle" /\ ~HasContent(loaded, tc) /\ HasContent(quotes, tc)) =>
              HasContent(quotes', tc)]_vars

\* C22: a local quote is posted with success at most once.  A quote leaves
\* quotes under its local id only through the rewrite that follows its
\* answered POST, so: every answered POST is for a quote whose local id is
\* still in quotes, and every POST that a step sends is for such a quote.
C22_PostedAtMostOnce ==
    [][/\ PostOkStep => called'.arg[1].id \in Ids(quotes)
       /\ \A p \in Procs :
              (pc'[p] = "posting" /\ (pc[p] # "posting" \/ localOnly'[p] # localOnly[p])) =>
                  Head(localOnly'[p]).id \in Ids(quotes')]_vars

\* C23: between two handler steps (at every await of a cycle and after every
\* addQuote, import, merge, rewrite of a posted quote and conflict choice)
\* the array in localStorage is the quotes array.
C23_PersistedIsQuotes == persisted = quotes

\* the last pending conflict has been resolved by keep-local: the restored
\* record is in quotes and in localStorage
C23_Witness ==
    /\ called.op = "applyConflictChoice"
    /\ called.choice = "local"
    /\ conflicts = <<>>
    /\ quotes # loaded
    /\ \E i \in 1..Len(persisted) : persisted[i].source = "local" /\ ~StartsWithLocal(persisted[i].id)
    /\ persisted = quotes

\* C24: in part_000, after fetchQuotesFromServer has handled a response,
\* every quote that has the text of a fetched server quote carries the
\* server quote's category, a server quote whose text no quote had is
\* appended, and a failed fetch leaves quotes and localStorage unchanged.
C24_ServerOverridesDuplicates ==
    [][/\ called'.op = "fetchedOk" =>
              \A k \in 1..Len(called'.arg) :
                  /\ \A j \in 1..Len(quotes') :
                         quotes'[j].text = called'.arg[k].text =>
                             quotes'[j].category = called'.arg[k].category
                  /\ ~SomeWithText(quotes, called'.arg[k].text) =>
                         \E j \in (Len(quotes) + 1)..Len(quotes') : quotes'[j] = called'.arg[k]
       /\ called'.op = "fetchedFail" => (quotes' = quotes /\ persisted' = persisted)]_vars

====
